---- MODULE Spec2Model ----
(***************************************************************************)
(* Offline sync queue of rn-expo-training: SyncService (services/sync.ts), *)
(* the todos table of DatabaseService (services/database.ts), the part of  *)
(* NetworkService (services/network.ts) the sync service reads, and the    *)
(* todoApi functions (hooks/local-first/useNetworkSync.ts) that write the  *)
(* table and the queue.                                                    *)
(*                                                                         *)
(* Every `await` of the code is a point where other callbacks may run, so  *)
(* each action below is the code between two awaits.  A remote reply       *)
(* (response.ok or not, a thrown fetch counts as not ok) and the outcome   *)
(* of a storage write are inputs chosen with \E.                           *)
(***************************************************************************)
EXTENDS Integers, Sequences, FiniteSets, TLC

\* ---------------------------------------------------------------- bounds
MaxTodos   == 1   \* todos ever created locally
MaxIntents == 2   \* intents ever enqueued
MaxPasses  == 2   \* executions of syncPendingChanges in flight at one time
MaxApi     == 1   \* todoApi calls awaiting their remote reply at one time
MaxInits   == 1   \* calls of syncService.init() in one run of the process
MaxBoots   == 1   \* restarts of the process
MaxStoreTodos == 2 \* entries of the todo store's list
MaxTempIds == 2   \* temp ids optimisticAdd ever generated
MaxRealIds == 2   \* ids the server ever assigned
MaxActions == 3   \* actions ever added to the sync store's queue
MaxMuts    == 2   \* optimistic mutations awaiting their result at one time
MaxScreens == 2   \* ExploreScreen instances mounted at one time
MaxListeners == 2 \* listeners of the NetworkService of part_009 at one time
MaxTimers  == 1   \* retry timers of useOfflineSync pending at one time
MaxErrorCount == 5 \* failed calls counted in useOfflineSync's errorCount
MaxCalls   == 3   \* calls of migrate() and rollback() observed

\* ------------------------------------------------------------- constants
MaxRetries == 3   \* sync.ts:145
autoRetry == TRUE       \* part_008:32
retryInterval == 30000  \* part_008:33
maxRetries == 5         \* part_008:34
maxSyncInterval == 300000 \* useNetworkSync.ts:40

Todos   == 1..MaxTodos
Intents == 1..MaxIntents
Passes  == 1..MaxPasses

VARIABLES
  net,            \* NetworkService.currentState
  isSyncing,      \* SyncService.isSyncing
  syncIntervalId, \* SyncService.syncIntervalId # null
  subscribed,     \* number of callbacks SyncService.init registered
  queue,          \* MMKV 'sync_queue': the stored JSON text of the SyncAction array
  lastSyncTime,   \* MMKV 'app_config'.lastSyncTime: 0 for null, else a timestamp
  db,             \* todos table: row state per todo id
  nextTodo,       \* next fresh todo id (Math.random id, taken as unique)
  nextIntent,     \* next fresh intent id (Math.random id, taken as unique)
  pass,           \* the executions of syncPendingChanges in flight, one per slot
  api,            \* todoApi calls suspended on their fetch
  hist,           \* observation of the requests sent and their replies
  notified,       \* reverts / permanent-failure notifications issued per intent
  boots,          \* restarts of the process so far
  todoStore,      \* useTodoStore: todos and stats (in memory)
  syncStore,      \* useSyncStore: queue, status.pending_actions and status.last_error
  muts,           \* mutations of useOptimisticTodoMutation awaiting their result, oldest first
  fresh,          \* next fresh temp id, server id and sync-store action id
  subscribers,    \* NetworkService.subscribers (services/network.ts), in insertion order
  lib,            \* the NetworkService of part_009: currentState and listeners
  calls,          \* the callbacks the network services invoked in the last step
  netStore,       \* useNetworkStore: networkState
  offlineSync,    \* useOfflineSync: the hook's state
  timers,         \* the setTimeout callbacks of scheduleRetry not yet run
  awaiting,       \* the passes a useOfflineSync call awaits the result of
  schema          \* the migrations table of the SQLite database, and the migrator calls made

\* the sync service with the table and the network state; the zustand stores
\* with the optimistic mutation hook
syncVars == <<net, isSyncing, syncIntervalId, subscribed, queue, lastSyncTime, db,
              nextTodo, nextIntent, pass, api, hist, notified>>
storeVars == <<todoStore, syncStore, muts, fresh>>
\* the two network services and the network store; the useOfflineSync hook
netVars == <<subscribers, lib, calls, netStore>>
retryVars == <<offlineSync, timers, awaiting>>

vars == <<syncVars, boots, storeVars, netVars, retryVars, schema>>

\* -------------------------------------------------------- network service
\* NetInfo reports (NetInfoState): isConnected and isInternetReachable are
\* boolean | null, written "true", "false", "null"; details.strength is a
\* number or undefined (hasStrength), and so is details.cellularGeneration
\* ("none" when undefined or null).
NetReport(connected, reachable, type, hasStrength, strength, generation, expensive) ==
  [isConnected |-> connected, isInternetReachable |-> reachable, type |-> type,
   hasStrength |-> hasStrength, strength |-> strength,
   cellularGeneration |-> generation, isConnectionExpensive |-> expensive]

NetInputs ==
  { NetReport("false", "false", "none", FALSE, 0, "none", FALSE),
    NetReport("true", "true", "wifi", TRUE, 80, "none", FALSE),
    NetReport("true", "true", "wifi", TRUE, 30, "none", FALSE) }

\* network.ts:85-95
mapConnectionType(type) ==
  IF type \in {"wifi", "cellular", "bluetooth", "ethernet", "other", "none"}
  THEN type ELSE "unknown"

\* network.ts:97-118
calculateQuality_OnlyFalse(r) ==
  IF r.isConnected = "false" THEN "offline"
  ELSE IF r.type = "wifi" /\ r.hasStrength
       THEN (IF r.strength > 70 THEN "excellent"
             ELSE IF r.strength > 40 THEN "good" ELSE "poor")
  ELSE IF r.type = "cellular" /\ r.cellularGeneration # "none"
       THEN (IF r.cellularGeneration = "5g" THEN "excellent"
             ELSE IF r.cellularGeneration = "4g" THEN "good" ELSE "poor")
  ELSE IF r.isInternetReachable = "true" THEN "good" ELSE "poor"
calculateQuality(r) ==
  IF r.isConnected # "true" THEN "offline"
  ELSE IF r.type = "wifi" /\ r.hasStrength
       THEN (IF r.strength > 70 THEN "excellent"
             ELSE IF r.strength > 40 THEN "good" ELSE "poor")
  ELSE IF r.type = "cellular" /\ r.cellularGeneration # "none"
       THEN (IF r.cellularGeneration = "5g" THEN "excellent"
             ELSE IF r.cellularGeneration = "4g" THEN "good" ELSE "poor")
  ELSE IF r.isInternetReachable = "true" THEN "good" ELSE "poor"

\* the NetworkState updateState builds from a report, network.ts:67-74
NewState(r) ==
  [isConnected |-> (r.isConnected = "true"),
   isInternetReachable |-> r.isInternetReachable,
   type |-> mapConnectionType(r.type), quality |-> calculateQuality(r),
   isMetered |-> r.isConnectionExpensive,
   details |-> [present |-> TRUE, hasStrength |-> r.hasStrength,
                strength |-> r.strength, cellularGeneration |-> r.cellularGeneration]]

InitialNetState ==
  [isConnected |-> FALSE, isInternetReachable |-> "null", type |-> "unknown",
   quality |-> "offline", isMetered |-> FALSE,
   details |-> [present |-> FALSE, hasStrength |-> FALSE, strength |-> 0,
                cellularGeneration |-> "none"]]

hasInternetAccess_Connected(s) == s.isInternetReachable # "false"
hasInternetAccess(s) == s.isInternetReachable = "true"

\* network.ts:182-186
isOptimalForSync(s) ==
  hasInternetAccess(s) /\ s.quality # "poor" /\ (s.type = "wifi" \/ ~s.isMetered)

\* the test of the subscriber callback of SyncService.init
ReconnectTest(s) == s.isConnected /\ s.isInternetReachable = "true"

\* ----------------------------------------------------------- sync storage
Ids(q) == { q[i].id : i \in 1..Len(q) }

\* JSON.stringify of a SyncAction array, value by value in property order,
\* and JSON.parse of that text
JSONstringify(q) ==
  [i \in 1..Len(q) |-> <<q[i].id, q[i].type, q[i].entity, q[i].retries>>]
JSONparse(t) ==
  [i \in 1..Len(t) |-> [id |-> t[i][1], type |-> t[i][2], entity |-> t[i][3],
                         retries |-> t[i][4]]]

\* SyncStorageService.getSyncQueue / setSyncQueue, sync.ts:33-44; stored is
\* the value of the MMKV key 'sync_queue' (the empty text for a missing key)
getSyncQueue(stored) == IF Len(stored) = 0 THEN <<>> ELSE JSONparse(stored)
setSyncQueue(q) == JSONstringify(q)

\* SyncStorageService.addToSyncQueue, sync.ts:46-50
Push_Unshift(stored, a) == setSyncQueue(<<a>> \o getSyncQueue(stored))
Push(stored, a) == setSyncQueue(Append(getSyncQueue(stored), a))

\* SyncStorageService.removeFromSyncQueue, sync.ts:52-56
removeFromSyncQueue_Shift(stored, actionId) ==
  LET q == getSyncQueue(stored)
  IN setSyncQueue(IF Len(q) = 0 THEN q ELSE Tail(q))
removeFromSyncQueue(stored, actionId) ==
  setSyncQueue(SelectSeq(getSyncQueue(stored), LAMBDA a : a.id # actionId))

NewAction_Retried(id, type, e) == [id |-> id, type |-> type, entity |-> e, retries |-> 1]
NewAction(id, type, e) == [id |-> id, type |-> type, entity |-> e, retries |-> 0]

\* the replies to a fetch: an HTTP status, or 0 when fetch threw (caught at
\* sync.ts:246-249, 263-266, 276-279); response.ok is true for 200..299
Statuses == {0, 200, 404, 500}
ResponseOk(status) == status \in 200..299
\* what processAction returns for the replies (sync.ts:240-245, 257-262, 271-275)
Outcomes == { ResponseOk(status) : status \in Statuses }

\* ------------------------------------------------------------ observation
Method(type) == CASE type = "CREATE" -> "POST"
                  [] type = "UPDATE" -> "PUT"
                  [] OTHER -> "DELETE"

\* the request of intent iid leaves for the remote authority
Sent(h, iid) == [h EXCEPT !.dispatched = @ \cup {iid}]

\* a reply arrives: acked are the entities some request carrying them has
\* succeeded for, created those a POST has succeeded for, fails[i] the failed
\* dispatches of intent i (counted up to MaxRetries)
Replied(h, method, e, iid, ok) ==
  [h EXCEPT !.acked   = IF ok THEN @ \cup {e} ELSE @,
            !.created = IF ok /\ method = "POST" THEN @ \cup {e} ELSE @,
            !.fails   = IF ~ok /\ iid # 0 /\ @[iid] < MaxRetries
                        THEN [@ EXCEPT ![iid] = @ + 1] ELSE @]

\* an intent left the queue: its failures are no longer of interest
Forgot(h, q) ==
  [h EXCEPT !.fails = [i \in Intents |-> IF i \in Ids(q) THEN @[i] ELSE 0]]

\* ------------------------------------------------------------ sync passes
IdlePass == [pc |-> "idle", snap |-> <<>>, idx |-> 0, uns |-> <<>>, uidx |-> 0,
             okEnts |-> {}]

InFlight(p) == pass[p].pc # "idle"
AwaitingRemote(p) == pass[p].pc \in {"dispatch", "upload"}
NumInFlight == Cardinality({ p \in Passes : InFlight(p) })

\* the executions of syncPendingChanges that get past the guards in a step
Started == { p \in Passes : ~InFlight(p) /\ pass'[p].pc # "idle" }

\* a new execution takes the lowest free slot
FreeSlots == { p \in Passes : ~InFlight(p) }
NewSlot == CHOOSE p \in FreeSlots : \A q \in FreeSlots : p <= q

\* sync.ts:94
AlreadySyncing_IgnoreFlag(syncing, forceSync) == FALSE
AlreadySyncing(syncing, forceSync) == syncing /\ ~forceSync

\* sync.ts:129-131, the value the finally block leaves in isSyncing
Finally_OnlyOnSuccess(threw, syncing) == IF threw THEN syncing ELSE FALSE
Finally(threw, syncing) == FALSE

\* syncPendingChanges(options) up to its first await (sync.ts:93-110 and the
\* first request of processSyncQueue, 135-139), called with network state s.
\* A call the guards reject returns false and changes nothing.
SyncPendingChanges(forceSync, s) ==
  IF AlreadySyncing(isSyncing, forceSync) \/ ~hasInternetAccess(s)
  THEN UNCHANGED <<isSyncing, pass, hist>>
  ELSE LET snap == getSyncQueue(queue)
       IN /\ FreeSlots # {}
          /\ isSyncing' = TRUE
          /\ IF Len(snap) > 0
             THEN /\ pass' = [pass EXCEPT ![NewSlot] =
                        [IdlePass EXCEPT !.pc = "dispatch", !.snap = snap, !.idx = 1]]
                  /\ hist' = Sent(hist, snap[1].id)
             ELSE /\ pass' = [pass EXCEPT ![NewSlot] = [IdlePass EXCEPT !.pc = "getUnsynced"]]
                  /\ hist' = hist

\* the initial state of useTodoStore (stores/index.ts:93-105) and of
\* useSyncStore (part_006:98-99)
InitialTodoStore ==
  [todos |-> <<>>, stats |-> [total |-> 0, completed |-> 0, pending |-> 0, overdue |-> 0]]
InitialSyncStore == [queue |-> <<>>, pending_actions |-> 0, last_error |-> "null"]

\* the initial currentState and listeners of the NetworkService of part_009
\* (8-13) and the defaultNetworkState of useNetworkStore (network-store.ts:45-49)
InitialLib ==
  [currentState |-> [isConnected |-> FALSE, isInternetReachable |-> "null", type |-> "null"],
   listeners |-> <<>>]
defaultNetworkState == [isConnected |-> FALSE, isInternetReachable |-> "null", type |-> "null"]

\* the initial state of useOfflineSync, part_008:38-45 (mounted: the first
\* render has been committed and its effects have run)
InitialOfflineSync ==
  [mounted |-> FALSE, isOffline |-> FALSE, errorCount |-> 0, nextRetry |-> "null"]

Init ==
  /\ net = InitialNetState
  /\ isSyncing = FALSE
  /\ syncIntervalId = FALSE
  /\ subscribed = 0
  /\ queue = <<>>
  /\ lastSyncTime = 0
  /\ db = [e \in Todos |-> "absent"]
  /\ nextTodo = 1
  /\ nextIntent = 1
  /\ pass = [p \in Passes |-> IdlePass]
  /\ api = {}
  /\ hist = [dispatched |-> {}, acked |-> {}, created |-> {},
             fails |-> [i \in Intents |-> 0]]
  /\ notified = [i \in Intents |-> 0]
  /\ boots = 0
  /\ todoStore = InitialTodoStore
  /\ syncStore = InitialSyncStore
  /\ muts = <<>>
  /\ fresh = [temp |-> 1, real |-> 1, action |-> 1]
  /\ subscribers = <<>>
  /\ lib = InitialLib
  /\ calls = <<>>
  /\ netStore = defaultNetworkState
  /\ offlineSync = InitialOfflineSync
  /\ timers = <<>>
  /\ awaiting = {}
  /\ schema = [table |-> FALSE, applied |-> {}, calls |-> <<>>]

\* the rows of SELECT * FROM todos WHERE synced = 0, in rowid order
RECURSIVE UnsyncedFrom(_, _)
UnsyncedFrom(d, e) ==
  IF e > MaxTodos THEN <<>>
  ELSE (IF d[e] = "unsynced" THEN <<e>> ELSE <<>>) \o UnsyncedFrom(d, e + 1)

getUnsyncedTodos(d) == UnsyncedFrom(d, 1)

\* UPDATE todos SET synced = 1 WHERE id = ? (no row, no change)
markAsSynced_Always(d, e, success) == IF d[e] = "absent" THEN d ELSE [d EXCEPT ![e] = "synced"]
markAsSynced(d, e, success) ==
  IF success /\ d[e] # "absent" THEN [d EXCEPT ![e] = "synced"] ELSE d

\* for (const action of queue), sync.ts:137-153: the loop body is one try
\* block, so the loop goes on to the next action whatever the reply was
HasNext_UntilFailure(idx, len, ok) == ok /\ idx < len
HasNext(idx, len, ok) == idx < len

\* processSyncQueue, sync.ts:139-153: the reply to the request for snap[idx]
\* arrives; the loop runs on to the next request or to the end of the queue.
DispatchReply(p, ok, storeOk) ==
  /\ pass[p].pc = "dispatch"
  /\ LET a  == pass[p].snap[pass[p].idx]
         r  == a.retries + 1
         h1 == Replied(hist, Method(a.type), a.entity, a.id, ok)
         drop == ok \/ r >= MaxRetries
         more == HasNext(pass[p].idx, Len(pass[p].snap), ok)
         nxt  == pass[p].snap[pass[p].idx + 1]
     IN /\ queue' = IF drop /\ storeOk THEN removeFromSyncQueue(queue, a.id)
                    ELSE queue
        /\ hist' = Forgot(IF more THEN Sent(h1, nxt.id) ELSE h1, getSyncQueue(queue'))
        /\ pass' = [pass EXCEPT ![p] =
              [@ EXCEPT !.okEnts = IF ok /\ a.type # "DELETE" THEN @ \cup {a.entity} ELSE @,
                        !.idx = IF more THEN @ + 1 ELSE 0,
                        !.snap = IF more THEN @ ELSE <<>>,
                        !.pc  = IF more THEN "dispatch" ELSE "getUnsynced"]]
  /\ UNCHANGED <<net, isSyncing, syncIntervalId, subscribed, lastSyncTime, db,
                 nextTodo, nextIntent, api, notified>>
  /\ UNCHANGED <<boots, schema, storeVars, netVars, retryVars>>

\* uploadUnsyncedData, sync.ts:177-190: the unsynced rows are read (the users
\* table is empty) and the first upload leaves; a failed read ends the upload.
GetUnsynced(p, dbOk) ==
  /\ pass[p].pc = "getUnsynced"
  /\ LET uns == getUnsyncedTodos(db)
     IN IF dbOk /\ Len(uns) > 0
        THEN /\ pass' = [pass EXCEPT ![p] = [@ EXCEPT !.pc = "upload", !.uns = uns,
                                                       !.uidx = 1]]
        ELSE /\ pass' = [pass EXCEPT ![p] = [@ EXCEPT !.pc = "finish"]]
  /\ hist' = hist
  /\ UNCHANGED <<net, isSyncing, syncIntervalId, subscribed, queue, lastSyncTime,
                 db, nextTodo, nextIntent, api, notified>>
  /\ UNCHANGED <<boots, schema, storeVars, netVars, retryVars>>

\* uploadUnsyncedData, sync.ts:189-197: the reply to the upload of uns[uidx]
UploadReply(p, ok, dbOk) ==
  /\ pass[p].pc = "upload"
  /\ LET e    == pass[p].uns[pass[p].uidx]
         h1   == Replied(hist, "POST", e, 0, ok)
         more == pass[p].uidx < Len(pass[p].uns)
         threw == ok /\ ~dbOk
         nxt  == pass[p].uns[pass[p].uidx + 1]
     IN /\ db' = IF threw THEN db ELSE markAsSynced(db, e, ok)
        /\ hist' = h1
        /\ pass' = [pass EXCEPT ![p] =
              [@ EXCEPT !.uidx = IF more /\ ~threw THEN @ + 1 ELSE 0,
                        !.uns  = IF more /\ ~threw THEN @ ELSE <<>>,
                        !.pc   = IF more /\ ~threw THEN "upload" ELSE "finish"]]
  /\ UNCHANGED <<net, isSyncing, syncIntervalId, subscribed, queue, lastSyncTime,
                 nextTodo, nextIntent, api, notified>>
  /\ UNCHANGED <<boots, schema, storeVars, netVars, retryVars>>

\* Date.now() at sync.ts:120: a timestamp other than the stored one; only
\* whether lastSyncTime changed is observed, so two names for timestamps do
DateNow(stored) == IF stored = 1 THEN 2 ELSE 1

\* syncPendingChanges, sync.ts:118-131: the timestamp is stored; a failed
\* store is caught; the finally block runs either way.
FinishPass(p, storeOk) ==
  /\ pass[p].pc = "finish"
  /\ lastSyncTime' = IF storeOk THEN DateNow(lastSyncTime) ELSE lastSyncTime
  /\ isSyncing' = Finally(~storeOk, isSyncing)
  /\ pass' = [pass EXCEPT ![p] = IdlePass]
  /\ UNCHANGED <<net, syncIntervalId, subscribed, queue, db, nextTodo, nextIntent,
                 api, hist, notified>>
  /\ UNCHANGED <<boots, schema, storeVars, netVars, retryVars>>

\* a plain syncPendingChanges() call (useOfflineSync, useNetworkSync)
SyncCall ==
  /\ SyncPendingChanges(FALSE, net)
  /\ UNCHANGED <<net, syncIntervalId, subscribed, queue, lastSyncTime, db,
                 nextTodo, nextIntent, api, notified>>
  /\ UNCHANGED <<boots, schema, storeVars, netVars, retryVars>>

\* forcSync(), sync.ts:292-294
ForcSync ==
  /\ SyncPendingChanges(TRUE, net)
  /\ UNCHANGED <<net, syncIntervalId, subscribed, queue, lastSyncTime, db,
                 nextTodo, nextIntent, api, notified>>
  /\ UNCHANGED <<boots, schema, storeVars, netVars, retryVars>>

\* the setInterval callback of setupAutoSync, sync.ts:86-90
TimerTick ==
  /\ syncIntervalId
  /\ hasInternetAccess(net) /\ ~isSyncing
  /\ SyncPendingChanges(FALSE, net)
  /\ UNCHANGED <<net, syncIntervalId, subscribed, queue, lastSyncTime, db,
                 nextTodo, nextIntent, api, notified>>
  /\ UNCHANGED <<boots, schema, storeVars, netVars, retryVars>>

\* the subscriber callbacks of init run one after the other with state s
\* (sync.ts:69-74): the first call may start a pass, the later ones then
\* find isSyncing set.
NotifySync(s) ==
  IF subscribed > 0 /\ ReconnectTest(s)
  THEN SyncPendingChanges(FALSE, s)
  ELSE UNCHANGED <<isSyncing, pass, hist>>

\* NetworkService.updateState, network.ts:64-83
NetChange(r) ==
  /\ net' = NewState(r)
  /\ NotifySync(NewState(r))
  /\ UNCHANGED <<syncIntervalId, subscribed, queue, lastSyncTime, db,
                 nextTodo, nextIntent, api, notified>>
  /\ UNCHANGED <<boots, schema, storeVars, netVars, retryVars>>

\* SyncService.init, sync.ts:64-77; subscribe calls the callback at once
SyncInit ==
  /\ subscribed < MaxInits
  /\ syncIntervalId' = TRUE
  /\ subscribed' = subscribed + 1
  /\ IF ReconnectTest(net)
     THEN SyncPendingChanges(FALSE, net)
     ELSE UNCHANGED <<isSyncing, pass, hist>>
  /\ UNCHANGED <<net, queue, lastSyncTime, db, nextTodo, nextIntent, api, notified>>
  /\ UNCHANGED <<boots, schema, storeVars, netVars, retryVars>>

\* ------------------------------------------------------------------ todoApi
\* SyncService.addToSyncQueue, sync.ts:296-308
addToSyncQueue(type, e) ==
  /\ queue' = Push(queue, NewAction(nextIntent, type, e))
  /\ nextIntent' = nextIntent + 1

\* every todoApi call may end in addToSyncQueue: keep an id for each
IntentBudget == nextIntent + Cardinality(api) <= MaxIntents

\* UPDATE todos SET synced = 1 ... WHERE id = ? of dbService.updateTodo
SetSynced(d, e) == IF d[e] = "absent" THEN d ELSE [d EXCEPT ![e] = "synced"]

\* a local statement of a todoApi call failed: dbService rethrows
\* (database.ts:166-169, 252-255) and todoApi does not catch, so the call
\* rejects before it changed anything that is modelled
Rejects == UNCHANGED vars

\* todoApi.createTodo, useNetworkSync.ts:409-420 and 433: the row is inserted
\* unsynced; online the POST leaves, offline the CREATE is enqueued.
ApiCreate(dbOk) ==
  /\ nextTodo <= MaxTodos
  /\ IntentBudget
  /\ IF ~dbOk THEN Rejects
     ELSE /\ db' = [db EXCEPT ![nextTodo] = "unsynced"]
          /\ nextTodo' = nextTodo + 1
          /\ IF hasInternetAccess(net)
             THEN /\ Cardinality(api) < MaxApi
                  /\ api' = api \cup {[op |-> "CREATE", entity |-> nextTodo]}
                  /\ hist' = hist
                  /\ UNCHANGED <<queue, nextIntent>>
             ELSE /\ addToSyncQueue("CREATE", nextTodo)
                  /\ UNCHANGED <<api, hist>>
          /\ UNCHANGED <<net, isSyncing, syncIntervalId, subscribed, lastSyncTime, pass,
                         notified>>
          /\ UNCHANGED <<boots, schema, storeVars, netVars, retryVars>>

\* todoApi.updateTodo, useNetworkSync.ts:439-455 and 467, for a row that
\* exists; dbOk: the UPDATE and the SELECT of 441-442 succeed
ApiUpdate(e, dbOk) ==
  /\ db[e] # "absent"
  /\ IntentBudget
  /\ IF ~dbOk THEN Rejects
     ELSE /\ IF hasInternetAccess(net)
             THEN /\ Cardinality(api) < MaxApi
                  /\ [op |-> "UPDATE", entity |-> e] \notin api
                  /\ api' = api \cup {[op |-> "UPDATE", entity |-> e]}
                  /\ hist' = hist
                  /\ UNCHANGED <<queue, nextIntent>>
             ELSE /\ addToSyncQueue("UPDATE", e)
                  /\ UNCHANGED <<api, hist>>
          /\ UNCHANGED <<net, isSyncing, syncIntervalId, subscribed, lastSyncTime, db,
                         nextTodo, pass, notified>>
          /\ UNCHANGED <<boots, schema, storeVars, netVars, retryVars>>

\* todoApi.deleteTodo, useNetworkSync.ts:473-482 and 493, for a row that exists
ApiDelete(e, dbOk) ==
  /\ db[e] # "absent"
  /\ IntentBudget
  /\ IF ~dbOk THEN Rejects
     ELSE /\ db' = [db EXCEPT ![e] = "absent"]
          /\ IF hasInternetAccess(net)
             THEN /\ Cardinality(api) < MaxApi
                  /\ api' = api \cup {[op |-> "DELETE", entity |-> e]}
                  /\ hist' = hist
                  /\ UNCHANGED <<queue, nextIntent>>
             ELSE /\ addToSyncQueue("DELETE", e)
                  /\ UNCHANGED <<api, hist>>
          /\ UNCHANGED <<net, isSyncing, syncIntervalId, subscribed, lastSyncTime,
                         nextTodo, pass, notified>>
          /\ UNCHANGED <<boots, schema, storeVars, netVars, retryVars>>

\* the reply to the fetch of a todoApi call c (useNetworkSync.ts:422-435,
\* 457-469, 484-495): an ok reply marks the row synced (nothing to mark after
\* a delete); a reply that is not ok, or a failed mark, enqueues the intent.
ApiReply(c, ok, dbOk) ==
  /\ c \in api
  /\ api' = api \ {c}
  /\ hist' = Replied(hist, Method(c.op), c.entity, 0, ok)
  /\ IF ok /\ (dbOk \/ c.op = "DELETE")
     THEN /\ db' = IF c.op = "DELETE" THEN db ELSE SetSynced(db, c.entity)
          /\ UNCHANGED <<queue, nextIntent>>
     ELSE /\ addToSyncQueue(c.op, c.entity)
          /\ db' = db
  /\ UNCHANGED <<net, isSyncing, syncIntervalId, subscribed, lastSyncTime,
                 nextTodo, pass, notified>>
  /\ UNCHANGED <<boots, schema, storeVars, netVars, retryVars>>

Next ==
  \/ SyncCall
  \/ ForcSync
  \/ TimerTick
  \/ \E r \in NetInputs : NetChange(r)
  \/ SyncInit
  \/ \E p \in Passes, ok \in Outcomes, storeOk \in BOOLEAN :
        DispatchReply(p, ok, storeOk)
  \/ \E p \in Passes, dbOk \in BOOLEAN : GetUnsynced(p, dbOk)
  \/ \E p \in Passes, ok \in BOOLEAN, dbOk \in BOOLEAN : UploadReply(p, ok, dbOk)
  \/ \E p \in Passes, storeOk \in BOOLEAN : FinishPass(p, storeOk)
  \/ \E dbOk \in BOOLEAN : ApiCreate(dbOk)
  \/ \E e \in Todos, dbOk \in BOOLEAN : ApiUpdate(e, dbOk)
  \/ \E e \in Todos, dbOk \in BOOLEAN : ApiDelete(e, dbOk)
  \/ \E c \in api, ok \in BOOLEAN, dbOk \in BOOLEAN : ApiReply(c, ok, dbOk)

Spec == Init /\ [][Next]_vars

\* the same program when every MMKV write and every SQLite statement succeeds
NextReliable ==
  \/ SyncCall
  \/ ForcSync
  \/ TimerTick
  \/ \E r \in NetInputs : NetChange(r)
  \/ SyncInit
  \/ \E p \in Passes, ok \in Outcomes : DispatchReply(p, ok, TRUE)
  \/ \E p \in Passes : GetUnsynced(p, TRUE)
  \/ \E p \in Passes, ok \in BOOLEAN : UploadReply(p, ok, TRUE)
  \/ \E p \in Passes : FinishPass(p, TRUE)
  \/ ApiCreate(TRUE)
  \/ \E e \in Todos : ApiUpdate(e, TRUE)
  \/ \E e \in Todos : ApiDelete(e, TRUE)
  \/ \E c \in api, ok \in BOOLEAN : ApiReply(c, ok, TRUE)

SpecReliable == Init /\ [][NextReliable]_vars

\* ------------------------------------------------------------------ restart
\* the process ends and starts again: every module is evaluated anew (the
\* SyncService and NetworkService singletons, the zustand stores created
\* without persist middleware, the pending promises), the MMKV file and the
\* SQLite database stay as they are
Restart_ClearsStorage ==
  /\ boots < MaxBoots
  /\ boots' = boots + 1
  /\ net' = InitialNetState
  /\ isSyncing' = FALSE
  /\ syncIntervalId' = FALSE
  /\ subscribed' = 0
  /\ pass' = [p \in Passes |-> IdlePass]
  /\ api' = {}
  /\ todoStore' = InitialTodoStore
  /\ syncStore' = InitialSyncStore
  /\ muts' = <<>>
  /\ subscribers' = <<>>
  /\ lib' = InitialLib
  /\ calls' = <<>>
  /\ netStore' = defaultNetworkState
  /\ offlineSync' = InitialOfflineSync
  /\ timers' = <<>>
  /\ awaiting' = {}
  /\ queue' = setSyncQueue(<<>>)
  /\ UNCHANGED <<lastSyncTime, db, nextTodo, nextIntent, hist, notified, fresh, schema>>
Restart ==
  /\ boots < MaxBoots
  /\ boots' = boots + 1
  /\ net' = InitialNetState
  /\ isSyncing' = FALSE
  /\ syncIntervalId' = FALSE
  /\ subscribed' = 0
  /\ pass' = [p \in Passes |-> IdlePass]
  /\ api' = {}
  /\ todoStore' = InitialTodoStore
  /\ syncStore' = InitialSyncStore
  /\ muts' = <<>>
  /\ subscribers' = <<>>
  /\ lib' = InitialLib
  /\ calls' = <<>>
  /\ netStore' = defaultNetworkState
  /\ offlineSync' = InitialOfflineSync
  /\ timers' = <<>>
  /\ awaiting' = {}
  /\ UNCHANGED <<queue, lastSyncTime, db, nextTodo, nextIntent, hist, notified, fresh, schema>>

\* the sync service of SpecReliable in a process that may restart
NextRestart ==
  \/ NextReliable
  \/ Restart

SpecRestart == Init /\ [][NextRestart]_vars

\* ------------------------------------------------------------------ destroy
\* SyncService.destroy, sync.ts:310-316: the interval is cleared; the callback
\* init registered with networkService.subscribe stays registered (init drops
\* the unsubscribe function subscribe returns, sync.ts:69)
Destroy ==
  /\ syncIntervalId' = IF syncIntervalId THEN FALSE ELSE syncIntervalId
  /\ UNCHANGED <<net, isSyncing, subscribed, queue, lastSyncTime, db, nextTodo,
                 nextIntent, pass, api, hist, notified>>
  /\ UNCHANGED <<boots, schema, storeVars, netVars, retryVars>>

\* the service has been initialised and destroy was its last lifecycle call
Destroyed == subscribed > 0 /\ ~syncIntervalId

\* the sync service of SpecReliable with destroy() callable at any time
NextDestroy ==
  \/ NextReliable
  \/ Destroy

SpecDestroy == Init /\ [][NextDestroy]_vars

\* ------------------------------------------------------------- todo store
\* A todo is a JavaScript object: a function from property names to values.
\* Of the Todo fields, id, completed, due_date and synced are modelled;
\* due_date 0 stands for no due date (undefined, falsy at index.ts:320).
TempId(n) == <<"temp", n>>
RealId(n) == <<"id", n>>

\* Date.now() at index.ts:307, later than the due dates of DueDates
Now == 2
DueDates == {0, 1}

\* the object spread { ...a, ...b }
Merge(a, b) == [f \in DOMAIN a \cup DOMAIN b |-> IF f \in DOMAIN b THEN b[f] ELSE a[f]]

\* todos.findIndex(t => t.id === id), 0 for -1
findIndex(todos, id) ==
  IF \E i \in 1..Len(todos) : todos[i].id = id
  THEN CHOOSE i \in 1..Len(todos) :
         todos[i].id = id /\ \A j \in 1..(i - 1) : todos[j].id # id
  ELSE 0

\* todos.splice(index, 1)
splice(todos, index) ==
  SubSeq(todos, 1, index - 1) \o SubSeq(todos, index + 1, Len(todos))

\* stats.total += d and stats.completed or stats.pending += d, by todo.completed
\* (index.ts:116-121, 148-153, 171-176, 211-216, 225-230)
Count(stats, todo, d) ==
  [stats EXCEPT !.total = @ + d,
                !.completed = IF todo.completed THEN @ + d ELSE @,
                !.pending = IF todo.completed THEN @ ELSE @ + d]

\* index.ts:131-139 and 194-202
Recount(stats, updates, oldCompleted) ==
  IF "completed" \in DOMAIN updates /\ updates.completed # oldCompleted
  THEN IF updates.completed
       THEN [stats EXCEPT !.completed = @ + 1, !.pending = @ - 1]
       ELSE [stats EXCEPT !.completed = @ - 1, !.pending = @ + 1]
  ELSE stats

\* calculateStats, index.ts:306-327
calculateStats(todos) ==
  LET idx == 1..Len(todos)
  IN [total |-> Len(todos),
      completed |-> Cardinality({ i \in idx : todos[i].completed }),
      pending |-> Cardinality({ i \in idx : ~todos[i].completed }),
      overdue |-> Cardinality({ i \in idx :
                    /\ ~todos[i].completed
                    /\ "due_date" \in DOMAIN todos[i]
                    /\ todos[i].due_date # 0 /\ todos[i].due_date < Now })]

\* addTodo, index.ts:114-122
addTodo(st, todo) ==
  [todos |-> <<todo>> \o st.todos, stats |-> Count(st.stats, todo, 1)]

\* updateTodo, index.ts:124-141
updateTodo(st, id, updates) ==
  LET index == findIndex(st.todos, id)
  IN IF index # 0
     THEN [todos |-> [st.todos EXCEPT ![index] = Merge(@, updates)],
           stats |-> Recount(st.stats, updates, st.todos[index].completed)]
     ELSE st

\* deleteTodo, index.ts:143-155
deleteTodo(st, id) ==
  LET index == findIndex(st.todos, id)
  IN IF index # 0
     THEN [todos |-> splice(st.todos, index),
           stats |-> Count(st.stats, st.todos[index], -1)]
     ELSE st

\* optimisticAdd, index.ts:158-180, with the temp id it generates
optimisticAdd(st, tempId, todoData) ==
  LET optimisticTodo ==
        Merge(Merge([id |-> tempId], todoData), [synced |-> FALSE, _isOptimistic |-> TRUE])
  IN [todos |-> <<optimisticTodo>> \o st.todos,
      stats |-> Count(st.stats, optimisticTodo, 1)]

\* optimisticUpdate, index.ts:182-204
optimisticUpdate(st, id, updates) ==
  LET index == findIndex(st.todos, id)
      old == st.todos[index]
      originalId == IF "_originalId" \in DOMAIN old THEN old._originalId ELSE old.id
  IN IF index # 0
     THEN [todos |-> [st.todos EXCEPT ![index] =
                        Merge(Merge(@, updates),
                              [_isOptimistic |-> TRUE, _originalId |-> originalId])],
           stats |-> Recount(st.stats, updates, old.completed)]
     ELSE st

\* optimisticDelete, index.ts:206-218
optimisticDelete(st, id) ==
  LET index == findIndex(st.todos, id)
  IN IF index # 0
     THEN [todos |-> splice(st.todos, index),
           stats |-> Count(st.stats, st.todos[index], -1)]
     ELSE st

\* revertOptimistic, index.ts:220-232
revertOptimistic_NoGuard(st, tempId) ==
  LET index == IF findIndex(st.todos, tempId) # 0 THEN findIndex(st.todos, tempId)
               ELSE Len(st.todos)
  IN IF index # 0
     THEN [todos |-> splice(st.todos, index),
           stats |-> Count(st.stats, st.todos[index], -1)]
     ELSE st
revertOptimistic(st, tempId) ==
  LET index == findIndex(st.todos, tempId)
  IN IF index # 0
     THEN [todos |-> splice(st.todos, index),
           stats |-> Count(st.stats, st.todos[index], -1)]
     ELSE st

\* confirmOptimistic, index.ts:234-239
confirmOptimistic(st, tempId, realTodo) ==
  LET index == findIndex(st.todos, tempId)
  IN IF index # 0
     THEN [st EXCEPT !.todos = [@ EXCEPT ![index] = realTodo]]
     ELSE st

\* the inputs: the data of a new todo, the updates of a todo, the ids in use
TodoData == { [completed |-> c, due_date |-> d] : c \in BOOLEAN, d \in DueDates }
Updates == { [completed |-> TRUE], [completed |-> FALSE], [due_date |-> 1] }
TempIds == { TempId(n) : n \in 1..MaxTempIds }
RealIds == { RealId(n) : n \in 1..MaxRealIds }

\* a todo as the server returns it: its own id, synced
ServerTodo(id, data) == Merge(Merge([id |-> id], data), [synced |-> TRUE])

\* calls of the store's actions, one after the other in any order
StoreAddTodo(data) ==
  /\ fresh.real <= MaxRealIds
  /\ Len(todoStore.todos) < MaxStoreTodos
  /\ todoStore' = addTodo(todoStore, ServerTodo(RealId(fresh.real), data))
  /\ fresh' = [fresh EXCEPT !.real = @ + 1]
  /\ UNCHANGED <<syncVars, netVars, retryVars, boots, schema, syncStore, muts>>

StoreUpdateTodo(id, updates) ==
  /\ todoStore' = updateTodo(todoStore, id, updates)
  /\ UNCHANGED <<syncVars, netVars, retryVars, boots, schema, syncStore, muts, fresh>>

StoreDeleteTodo(id) ==
  /\ todoStore' = deleteTodo(todoStore, id)
  /\ UNCHANGED <<syncVars, netVars, retryVars, boots, schema, syncStore, muts, fresh>>

StoreOptimisticAdd(data) ==
  /\ fresh.temp <= MaxTempIds
  /\ Len(todoStore.todos) < MaxStoreTodos
  /\ todoStore' = optimisticAdd(todoStore, TempId(fresh.temp), data)
  /\ fresh' = [fresh EXCEPT !.temp = @ + 1]
  /\ UNCHANGED <<syncVars, netVars, retryVars, boots, schema, syncStore, muts>>

StoreOptimisticUpdate(id, updates) ==
  /\ todoStore' = optimisticUpdate(todoStore, id, updates)
  /\ UNCHANGED <<syncVars, netVars, retryVars, boots, schema, syncStore, muts, fresh>>

StoreOptimisticDelete(id) ==
  /\ todoStore' = optimisticDelete(todoStore, id)
  /\ UNCHANGED <<syncVars, netVars, retryVars, boots, schema, syncStore, muts, fresh>>

StoreRevertOptimistic(tempId) ==
  /\ todoStore' = revertOptimistic(todoStore, tempId)
  /\ UNCHANGED <<syncVars, netVars, retryVars, boots, schema, syncStore, muts, fresh>>

StoreConfirmOptimistic(tempId, data) ==
  /\ fresh.real <= MaxRealIds
  /\ todoStore' = confirmOptimistic(todoStore, tempId, ServerTodo(RealId(fresh.real), data))
  /\ fresh' = [fresh EXCEPT !.real = @ + 1]
  /\ UNCHANGED <<syncVars, netVars, retryVars, boots, schema, syncStore, muts>>

NextTodoStore ==
  \/ \E data \in TodoData : StoreAddTodo(data)
  \/ \E id \in TempIds \cup RealIds, updates \in Updates : StoreUpdateTodo(id, updates)
  \/ \E id \in TempIds \cup RealIds : StoreDeleteTodo(id)
  \/ \E data \in TodoData : StoreOptimisticAdd(data)
  \/ \E id \in TempIds \cup RealIds, updates \in Updates : StoreOptimisticUpdate(id, updates)
  \/ \E id \in TempIds \cup RealIds : StoreOptimisticDelete(id)
  \/ \E tempId \in TempIds : StoreRevertOptimistic(tempId)
  \/ \E tempId \in TempIds, data \in TodoData : StoreConfirmOptimistic(tempId, data)

SpecTodoStore == Init /\ [][NextTodoStore]_vars

\* ------------------------------------------------------------- sync store
\* addToQueue, part_006:124-141, with the id it generates
addToQueue(ss, id, type) ==
  [ss EXCEPT !.queue = Append(ss.queue, [id |-> id, type |-> type, retries |-> 0]),
             !.pending_actions = Len(ss.queue) + 1]

\* removeFromQueue, part_006:143-152
removeFromQueue_StaleCount(ss, actionId) ==
  LET newQueue == SelectSeq(ss.queue, LAMBDA a : a.id # actionId)
  IN [ss EXCEPT !.queue = newQueue, !.pending_actions = Len(ss.queue) - 1]
removeFromQueue(ss, actionId) ==
  LET newQueue == SelectSeq(ss.queue, LAMBDA a : a.id # actionId)
  IN [ss EXCEPT !.queue = newQueue, !.pending_actions = Len(newQueue)]

\* clearQueue, part_006:154-157
clearQueue(ss) == [ss EXCEPT !.queue = <<>>, !.pending_actions = 0]

\* setError, part_006:119-121
setError(ss, error) == [ss EXCEPT !.last_error = error]

\* incrementRetries, part_006:159-165
incrementRetries(ss, actionId) ==
  LET q == ss.queue
  IN [ss EXCEPT !.queue = [i \in 1..Len(q) |->
        IF q[i].id = actionId THEN [q[i] EXCEPT !.retries = @ + 1] ELSE q[i]]]

\* reset, part_006:210-218
reset(ss) == InitialSyncStore

\* (action.retries || 0): retries is the number addToQueue and
\* incrementRetries wrote, and 0 || 0 is 0
retriesOrZero(action) == IF action.retries = 0 THEN 0 ELSE action.retries

\* getPendingActions / getFailedActions, part_006:184-190 (SelectSeq is
\* Array.prototype.filter)
getPendingActions(ss) == SelectSeq(ss.queue, LAMBDA action : retriesOrZero(action) < 3)
getFailedActions(ss) == SelectSeq(ss.queue, LAMBDA action : retriesOrZero(action) >= 3)

\* getQueueStats, part_006:192-207
getQueueStats_RetryingUpToThree(ss) ==
  [total    |-> Len(ss.queue),
   pending  |-> Len(SelectSeq(ss.queue, LAMBDA action : retriesOrZero(action) = 0)),
   failed   |-> Len(SelectSeq(ss.queue, LAMBDA action : retriesOrZero(action) >= 3)),
   retrying |-> Len(SelectSeq(ss.queue, LAMBDA action :
                      retriesOrZero(action) > 0 /\ retriesOrZero(action) <= 3))]
getQueueStats(ss) ==
  [total    |-> Len(ss.queue),
   pending  |-> Len(SelectSeq(ss.queue, LAMBDA action : retriesOrZero(action) = 0)),
   failed   |-> Len(SelectSeq(ss.queue, LAMBDA action : retriesOrZero(action) >= 3)),
   retrying |-> Len(SelectSeq(ss.queue, LAMBDA action :
                      retriesOrZero(action) > 0 /\ retriesOrZero(action) < 3))]

ActionIds == 1..MaxActions
ActionTypes == {"CREATE", "UPDATE", "DELETE"}

SyncStoreAddToQueue(type) ==
  /\ fresh.action <= MaxActions
  /\ syncStore' = addToQueue(syncStore, fresh.action, type)
  /\ fresh' = [fresh EXCEPT !.action = @ + 1]
  /\ UNCHANGED <<syncVars, netVars, retryVars, boots, schema, todoStore, muts>>

SyncStoreRemoveFromQueue(actionId) ==
  /\ syncStore' = removeFromQueue(syncStore, actionId)
  /\ UNCHANGED <<syncVars, netVars, retryVars, boots, schema, todoStore, muts, fresh>>

SyncStoreClearQueue ==
  /\ syncStore' = clearQueue(syncStore)
  /\ UNCHANGED <<syncVars, netVars, retryVars, boots, schema, todoStore, muts, fresh>>

\* retries is counted up to MaxRetries, from where getFailedActions and
\* getQueueStats count the action as failed (part_006:189, 195)
SyncStoreIncrementRetries(actionId) ==
  /\ \E i \in 1..Len(syncStore.queue) :
        syncStore.queue[i].id = actionId /\ syncStore.queue[i].retries < MaxRetries
  /\ syncStore' = incrementRetries(syncStore, actionId)
  /\ UNCHANGED <<syncVars, netVars, retryVars, boots, schema, todoStore, muts, fresh>>

SyncStoreSetError(error) ==
  /\ syncStore' = setError(syncStore, error)
  /\ UNCHANGED <<syncVars, netVars, retryVars, boots, schema, todoStore, muts, fresh>>

SyncStoreReset ==
  /\ syncStore' = reset(syncStore)
  /\ UNCHANGED <<syncVars, netVars, retryVars, boots, schema, todoStore, muts, fresh>>

NextSyncStore ==
  \/ \E type \in ActionTypes : SyncStoreAddToQueue(type)
  \/ \E actionId \in ActionIds : SyncStoreRemoveFromQueue(actionId)
  \/ SyncStoreClearQueue
  \/ \E actionId \in ActionIds : SyncStoreIncrementRetries(actionId)
  \/ \E error \in {"null", "error"} : SyncStoreSetError(error)
  \/ SyncStoreReset

SpecSyncStore == Init /\ [][NextSyncStore]_vars

\* ------------------------------------------- optimistic mutation hook
\* useOptimisticTodoMutation, useOptimisticMutation.ts:91-287.  Each wrapper
\* changes the todo store, adds an action to the sync store and starts its
\* mutation; the mutation function is a timer (1000, 800 and 500 ms for
\* create, update and delete), so mutations of one kind settle in the order
\* they were started.  The create timer always resolves, the other two
\* resolve or reject.
\*
\* A mutation record on an existing todo also carries two observations: base,
\* the visible value the todo had before the first of the mutations pending
\* on it, and clean, whether none of the mutations pending with it since then
\* has succeeded.
Visible(todo) == [completed |-> todo.completed, due_date |-> todo.due_date]

PendingOn(id) == { i \in 1..Len(muts) : muts[i].op # "create" /\ muts[i].id = id }

Observed(id, originalTodo) ==
  IF PendingOn(id) = {}
  THEN [base |-> Visible(originalTodo), clean |-> TRUE]
  ELSE LET i == CHOOSE i \in PendingOn(id) : TRUE
       IN [base |-> muts[i].base, clean |-> muts[i].clean]

\* the timers of one kind fire in the order they were set
CanSettle(i) == \A j \in 1..(i - 1) : muts[j].op # muts[i].op

\* mutation i has settled; a success ends the run of failures on its todo
Settled(i, ok) ==
  LET rest == [j \in 1..Len(muts) |->
                 IF ok /\ j # i /\ muts[j].op # "create" /\ muts[i].op # "create"
                    /\ muts[j].id = muts[i].id
                 THEN [muts[j] EXCEPT !.clean = FALSE] ELSE muts[j]]
  IN SubSeq(rest, 1, i - 1) \o SubSeq(rest, i + 1, Len(rest))

\* optimisticCreateTodo, useOptimisticMutation.ts:126-138
OptimisticCreateTodo(data) ==
  /\ fresh.temp <= MaxTempIds /\ fresh.action <= MaxActions
  /\ Len(muts) < MaxMuts /\ Len(todoStore.todos) < MaxStoreTodos
  /\ todoStore' = optimisticAdd(todoStore, TempId(fresh.temp), data)
  /\ syncStore' = addToQueue(syncStore, fresh.action, "CREATE")
  /\ muts' = Append(muts, [op |-> "create", id |-> TempId(fresh.temp), data |-> data])
  /\ fresh' = [fresh EXCEPT !.temp = @ + 1, !.action = @ + 1]
  /\ UNCHANGED <<syncVars, netVars, retryVars, boots, schema>>

\* the create mutation resolves (useOptimisticMutation.ts:104-115) and the
\* then callback runs (139-144)
CreateSettled(i) ==
  /\ i \in 1..Len(muts) /\ muts[i].op = "create" /\ CanSettle(i)
  /\ fresh.real <= MaxRealIds
  /\ todoStore' = confirmOptimistic(todoStore, muts[i].id,
                                    ServerTodo(RealId(fresh.real), muts[i].data))
  /\ muts' = Settled(i, TRUE)
  /\ fresh' = [fresh EXCEPT !.real = @ + 1]
  /\ UNCHANGED <<syncVars, netVars, retryVars, boots, schema, syncStore>>

\* optimisticUpdateTodo, useOptimisticMutation.ts:189-214, for a todo that is
\* in the store (otherwise a notification and nothing else)
OptimisticUpdateTodo(id, updates) ==
  /\ findIndex(todoStore.todos, id) # 0
  /\ fresh.action <= MaxActions /\ Len(muts) < MaxMuts
  /\ LET originalTodo == todoStore.todos[findIndex(todoStore.todos, id)]
     IN muts' = Append(muts, [op |-> "update", id |-> id, orig |-> originalTodo,
                              updates |-> updates,
                              base |-> Observed(id, originalTodo).base,
                              clean |-> Observed(id, originalTodo).clean])
  /\ todoStore' = optimisticUpdate(todoStore, id, updates)
  /\ syncStore' = addToQueue(syncStore, fresh.action, "UPDATE")
  /\ fresh' = [fresh EXCEPT !.action = @ + 1]
  /\ UNCHANGED <<syncVars, netVars, retryVars, boots, schema>>

\* the update mutation resolves or rejects (useOptimisticMutation.ts:156-179)
\* and the then or catch callback runs (215-224)
UpdateSettled(i, ok) ==
  /\ i \in 1..Len(muts) /\ muts[i].op = "update" /\ CanSettle(i)
  /\ LET realTodo == Merge(Merge([id |-> muts[i].id], muts[i].updates), [synced |-> TRUE])
     IN todoStore' = IF ok THEN updateTodo(todoStore, muts[i].id, realTodo)
                     ELSE updateTodo(todoStore, muts[i].id, muts[i].orig)
  /\ muts' = Settled(i, ok)
  /\ UNCHANGED <<syncVars, netVars, retryVars, boots, schema, syncStore, fresh>>

\* optimisticDeleteTodo, useOptimisticMutation.ts:252-277
OptimisticDeleteTodo(id) ==
  /\ findIndex(todoStore.todos, id) # 0
  /\ fresh.action <= MaxActions /\ Len(muts) < MaxMuts
  /\ LET originalTodo == todoStore.todos[findIndex(todoStore.todos, id)]
     IN muts' = Append(muts, [op |-> "delete", id |-> id, orig |-> originalTodo,
                              base |-> Observed(id, originalTodo).base,
                              clean |-> Observed(id, originalTodo).clean])
  /\ todoStore' = optimisticDelete(todoStore, id)
  /\ syncStore' = addToQueue(syncStore, fresh.action, "DELETE")
  /\ fresh' = [fresh EXCEPT !.action = @ + 1]
  /\ UNCHANGED <<syncVars, netVars, retryVars, boots, schema>>

\* the delete mutation resolves or rejects (useOptimisticMutation.ts:231-242)
\* and the then or catch callback runs (278-286)
DeleteSettled(i, ok) ==
  /\ i \in 1..Len(muts) /\ muts[i].op = "delete" /\ CanSettle(i)
  /\ todoStore' = IF ok THEN todoStore ELSE addTodo(todoStore, muts[i].orig)
  /\ muts' = Settled(i, ok)
  /\ UNCHANGED <<syncVars, netVars, retryVars, boots, schema, syncStore, fresh>>

NextHooks ==
  \/ \E data \in TodoData : OptimisticCreateTodo(data)
  \/ \E i \in 1..MaxMuts : CreateSettled(i)
  \/ \E id \in TempIds \cup RealIds, updates \in Updates : OptimisticUpdateTodo(id, updates)
  \/ \E i \in 1..MaxMuts, ok \in BOOLEAN : UpdateSettled(i, ok)
  \/ \E id \in TempIds \cup RealIds : OptimisticDeleteTodo(id)
  \/ \E i \in 1..MaxMuts, ok \in BOOLEAN : DeleteSettled(i, ok)
  \/ Restart

SpecHooks == Init /\ [][NextHooks]_vars

\* ---------------------------------------------------------------- migrator
\* DatabaseMigrator, database/migrator.ts.  this.migrations holds
\* migration_001_initial_setup (version 1) and migration_002_add_indexes,
\* sorted by version (migrator.ts:8-16).  The file of migration 002 is not in
\* the repository snapshot: it is taken as version 2, with an up and a down
\* that leave the migrations table alone.
migrations == <<1, 2>>
Versions == { migrations[i] : i \in 1..Len(migrations) }

SetMax(S) == CHOOSE x \in S : \A y \in S : y <= x

\* getCurrentVersion, migrator.ts:58-82: 0 without a migrations table, else
\* MAX(version), and 0 for the NULL of an empty table
getCurrentVersion(s) ==
  IF ~s.table THEN 0
  ELSE IF s.applied = {} THEN 0 ELSE SetMax(s.applied)

\* migration.up and the INSERT of executeMigration (migrator.ts:84-104);
\* the up of migration 1 creates the migrations table (001_initial_setup.ts:19)
executeMigration(s, version) ==
  [s EXCEPT !.table = TRUE,
            !.applied = (IF s.table THEN s.applied ELSE {}) \cup {version}]

\* migrate, migrator.ts:22-56: the pending migrations in ascending order
RECURSIVE MigrateFrom(_, _)
MigrateFrom(s, i) ==
  IF i > Len(migrations) THEN s
  ELSE MigrateFrom(IF migrations[i] > getCurrentVersion(s)
                   THEN executeMigration(s, migrations[i]) ELSE s, i + 1)

\* the optional argument of rollback: <<>> for undefined, <<n>> for number n
Undefined == <<>>
Number(n) == <<n>>

\* targetVersion || currentVersion - 1 (migrator.ts:112): undefined and 0
\* are falsy
TargetOf(targetVersion, currentVersion) ==
  IF targetVersion = Undefined \/ targetVersion[1] = 0
  THEN currentVersion - 1 ELSE targetVersion[1]

\* the versions to revert, in descending order (migrator.ts:122-124)
RECURSIVE Descending(_)
Descending(S) ==
  IF S = {} THEN <<>> ELSE <<SetMax(S)>> \o Descending(S \ {SetMax(S)})
migrationsToRollback(target, currentVersion) ==
  Descending({ v \in Versions : v > target /\ v <= currentVersion })

\* the loop of rollback, migrator.ts:126-142: down, then DELETE FROM
\* migrations.  The down of migration 1 drops the migrations table
\* (001_initial_setup.ts:97), so the DELETE after it throws and ends the call.
RECURSIVE RollbackLoop(_, _, _)
RollbackLoop(s, list, reverted) ==
  IF list = <<>> THEN [schema |-> s, reverted |-> reverted, threw |-> FALSE]
  ELSE IF Head(list) = 1
       THEN [schema |-> [s EXCEPT !.table = FALSE, !.applied = {}],
             reverted |-> Append(reverted, 1), threw |-> TRUE]
       ELSE RollbackLoop([s EXCEPT !.applied = @ \ {Head(list)}], Tail(list),
                         Append(reverted, Head(list)))

\* rollback(targetVersion), migrator.ts:106-145
rollback(s, targetVersion) ==
  LET currentVersion == getCurrentVersion(s)
      target == TargetOf(targetVersion, currentVersion)
  IN IF target >= currentVersion
     THEN [schema |-> s, reverted |-> <<>>, threw |-> FALSE]
     ELSE RollbackLoop(s, migrationsToRollback(target, currentVersion), <<>>)

\* the arguments of rollback: none, or a version number
TargetVersions == {Undefined} \cup { Number(n) : n \in 0..SetMax(Versions) + 1 }

MigratorMigrate ==
  /\ Len(schema.calls) < MaxCalls
  /\ schema' = [MigrateFrom(schema, 1) EXCEPT
                  !.calls = Append(@, [op |-> "migrate", target |-> Undefined,
                                       from |-> getCurrentVersion(schema),
                                       reverted |-> <<>>, threw |-> FALSE])]
  /\ UNCHANGED <<syncVars, boots, storeVars, netVars, retryVars>>

MigratorRollback(targetVersion) ==
  /\ Len(schema.calls) < MaxCalls
  /\ LET r == rollback(schema, targetVersion)
     IN schema' = [r.schema EXCEPT
                     !.calls = Append(@, [op |-> "rollback", target |-> targetVersion,
                                          from |-> getCurrentVersion(schema),
                                          reverted |-> r.reverted, threw |-> r.threw])]
  /\ UNCHANGED <<syncVars, boots, storeVars, netVars, retryVars>>

NextMigrator ==
  \/ MigratorMigrate
  \/ \E targetVersion \in TargetVersions : MigratorRollback(targetVersion)

SpecMigrator == Init /\ [][NextMigrator]_vars

\* -------------------------------------------------- network subscriptions
\* The states NetInfo reports (its NetInfoState union): disconnected, unknown
\* (isConnected null), and connected over wifi, cellular or ethernet with
\* isInternetReachable true, false or null.
Reachabilities == {"true", "false", "null"}
NetInfoStates ==
  { NetReport("false", "false", "none", FALSE, 0, "none", FALSE),
    NetReport("null", "null", "unknown", FALSE, 0, "none", FALSE) }
  \cup { NetReport("true", "true", "wifi", TRUE, strength, "none", FALSE) :
           strength \in {30, 50, 80} }
  \cup { NetReport("true", reachable, "wifi", FALSE, 0, "none", FALSE) :
           reachable \in Reachabilities }
  \cup { NetReport("true", "true", "cellular", FALSE, 0, generation, expensive) :
           generation \in {"3g", "4g"}, expensive \in BOOLEAN }
  \cup { NetReport("true", "true", "cellular", FALSE, 0, "none", TRUE),
         NetReport("true", "null", "ethernet", FALSE, 0, "none", FALSE) }

\* the callbacks subscribed to the NetworkService of network.ts: one per
\* mounted ExploreScreen (app/(tabs)/explore.tsx:16-32, a new closure at each
\* mount, unsubscribed at unmount)
Screens == 1..MaxScreens

Invoked(cb, state) == [cb |-> cb, state |-> state]

\* Set.add and Set.delete on a Set kept in insertion order
SetAdd(set, cb) ==
  IF \E i \in 1..Len(set) : set[i] = cb THEN set ELSE Append(set, cb)
SetDelete(set, cb) == SelectSeq(set, LAMBDA x : x # cb)

\* notifySubscribers, network.ts:143-151: the callbacks called, in order (no
\* callback of a screen subscribes or unsubscribes while it runs)
notifySubscribers(set, state) == [i \in 1..Len(set) |-> Invoked(set[i], state)]

\* NetworkService.subscribe, network.ts:188-193
Subscribe(cb) ==
  /\ \A i \in 1..Len(subscribers) : subscribers[i] # cb
  /\ subscribers' = SetAdd(subscribers, cb)
  /\ calls' = <<Invoked(cb, net)>>
  /\ UNCHANGED <<syncVars, boots, schema, storeVars, lib, netStore, retryVars>>

\* the function subscribe returned, network.ts:195-197
Unsubscribe(cb) ==
  /\ \E i \in 1..Len(subscribers) : subscribers[i] = cb
  /\ subscribers' = SetDelete(subscribers, cb)
  /\ calls' = <<>>
  /\ UNCHANGED <<syncVars, boots, schema, storeVars, lib, netStore, retryVars>>

\* NetworkService.updateState for a NetInfo event or the fetch of refresh(),
\* network.ts:64-83 and 227-231
UpdateState(r) ==
  /\ net' = NewState(r)
  /\ NotifySync(NewState(r))
  /\ calls' = notifySubscribers(subscribers, NewState(r))
  /\ UNCHANGED <<syncIntervalId, subscribed, queue, lastSyncTime, db,
                 nextTodo, nextIntent, api, notified>>
  /\ UNCHANGED <<boots, schema, storeVars, subscribers, lib, netStore, retryVars>>

\* The NetworkService of part_009.  Its listeners are kept in an array; a
\* listener is plain, or the one waitForConnection subscribes (139-145),
\* which unsubscribes itself when it is called with a connected state.
ListenerIds == 1..MaxListeners
ListenerKinds == {"plain", "wait"}

\* the states expo-network reports, as updateNetworkState stores them (29-33)
ExpoStates ==
  { [isConnected |-> FALSE, isInternetReachable |-> "false", type |-> "NONE"],
    [isConnected |-> TRUE, isInternetReachable |-> "false", type |-> "WIFI"],
    [isConnected |-> TRUE, isInternetReachable |-> "true", type |-> "WIFI"] }

\* part_009:93-95
libHasInternetAccess(state) == state.isConnected /\ state.isInternetReachable = "true"

\* listeners.indexOf(listener), 0 for -1, and listeners.splice(index, 1)
indexOf(ls, id) ==
  IF \E i \in 1..Len(ls) : ls[i].id = id
  THEN CHOOSE i \in 1..Len(ls) : ls[i].id = id /\ \A j \in 1..(i - 1) : ls[j].id # id
  ELSE 0
unsubscribe(ls, id) ==
  IF indexOf(ls, id) > 0
  THEN SubSeq(ls, 1, indexOf(ls, id) - 1) \o SubSeq(ls, indexOf(ls, id) + 1, Len(ls))
  ELSE ls

\* what a listener does to the array when it is called with state
Listener(ls, l, state) ==
  IF l.kind = "wait" /\ state.isConnected /\ state.isInternetReachable = "true"
  THEN unsubscribe(ls, l.id) ELSE ls

\* notifyListeners, part_009:56-64: Array.prototype.forEach visits the
\* indices 1..len, len being the length at the start, and at each index the
\* element the array holds there at that moment (none: the index is skipped)
RECURSIVE forEach(_, _, _, _, _)
forEach(ls, k, len, state, called) ==
  IF k > len THEN [listeners |-> ls, calls |-> called]
  ELSE IF k > Len(ls) THEN forEach(ls, k + 1, len, state, called)
  ELSE forEach(Listener(ls, ls[k], state), k + 1, len, state,
               Append(called, Invoked(ls[k].id, state)))

notifyListeners(ls, state) == forEach(ls, 1, Len(ls), state, <<>>)

\* subscribe, part_009:67-72; waitForConnection subscribes only without
\* internet access (129-131 and 139)
LibSubscribe(id, kind) ==
  /\ indexOf(lib.listeners, id) = 0
  /\ kind = "wait" => ~libHasInternetAccess(lib.currentState)
  /\ lib' = [lib EXCEPT !.listeners = Append(@, [id |-> id, kind |-> kind])]
  /\ calls' = <<Invoked(id, lib.currentState)>>
  /\ UNCHANGED <<syncVars, boots, schema, storeVars, subscribers, netStore, retryVars>>

\* the function subscribe returned, part_009:74-79, called by the subscriber
\* or by the timeout of waitForConnection (134-137)
LibUnsubscribe(id) ==
  /\ indexOf(lib.listeners, id) > 0
  /\ lib' = [lib EXCEPT !.listeners = unsubscribe(@, id)]
  /\ calls' = <<>>
  /\ UNCHANGED <<syncVars, boots, schema, storeVars, subscribers, netStore, retryVars>>

\* updateNetworkState, part_009:25-40, at init, at a poll tick of
\* startMonitoring (48-50) or at refresh()
LibUpdateNetworkState(state) ==
  /\ lib' = [currentState |-> state,
             listeners |-> notifyListeners(lib.listeners, state).listeners]
  /\ calls' = notifyListeners(lib.listeners, state).calls
  /\ UNCHANGED <<syncVars, boots, schema, storeVars, subscribers, netStore, retryVars>>

\* ------------------------------------------------------------ network store
\* the states setNetworkState is called with (network-store.ts:61-68)
NetworkStoreStates ==
  { defaultNetworkState,
    [isConnected |-> TRUE, isInternetReachable |-> "true", type |-> "wifi"],
    [isConnected |-> TRUE, isInternetReachable |-> "null", type |-> "wifi"],
    [isConnected |-> TRUE, isInternetReachable |-> "true", type |-> "cellular"] }

\* network-store.ts:119-122
isOnline(ns) == ns.isConnected /\ ns.isInternetReachable # "false"

\* what getConnectionStats returns of use to useNetworkSync
\* (network-store.ts:158-200): disconnections and averageConnectionDuration
ConnectionStats ==
  { [disconnections |-> d, averageConnectionDuration |-> a] :
      d \in 0..3, a \in {0, 30000, 30001, 60000, 60001} }

\* useNetworkSync.ts:58-77
evaluateConnectionQuality(ns, stats) ==
  IF ~isOnline(ns) THEN "offline"
  ELSE IF stats.disconnections = 0 /\ stats.averageConnectionDuration > 60000
       THEN "excellent"
  ELSE IF stats.disconnections <= 2 /\ stats.averageConnectionDuration > 30000
       THEN "good"
  ELSE IF ns.isConnected THEN "poor"
  ELSE "offline"

\* isOptimalForSync of useNetworkSync, useNetworkSync.ts:102-113
useNetworkSyncIsOptimal_AnyTransport(syncOnlyOnWifi, ns, stats) ==
  evaluateConnectionQuality(ns, stats) \in {"excellent", "good"}
useNetworkSyncIsOptimal(syncOnlyOnWifi, ns, stats) ==
  IF syncOnlyOnWifi /\ ns.type # "wifi" THEN FALSE
  ELSE evaluateConnectionQuality(ns, stats) \in {"excellent", "good"}

\* ----------------------------------------------------------- useOfflineSync
\* The hook's state is errorCount, nextRetry (null, or a time: "set") and
\* isOffline.  Whether the time nextRetry has passed when an effect runs is
\* an input (due).  A call of the hook's syncPendingChanges that reaches the
\* service awaits the pass it started.

\* part_008:91-100 and 74-79
Failed(st) ==
  LET newErrorCount == st.errorCount + 1
      shouldRetry == autoRetry /\ newErrorCount < maxRetries
  IN [st EXCEPT !.errorCount = newErrorCount,
                !.nextRetry = IF shouldRetry THEN "set" ELSE "null"]
Succeeded(st) == [st EXCEPT !.errorCount = 0, !.nextRetry = "null"]

\* part_008:122
timeUntilRetry(errorCount) == retryInterval * 2^errorCount

\* the hook's syncPendingChanges, part_008:58-104, up to its await, called in
\* hook state st with the network store at ns; a call the service rejects
\* (sync.ts:94-102) resumes at once in the catch block
OfflineSyncPendingChanges(st, ns) ==
  IF ~isOnline(ns)
  THEN /\ offlineSync' = st
       /\ UNCHANGED <<isSyncing, pass, hist, awaiting>>
  ELSE IF AlreadySyncing(isSyncing, FALSE) \/ ~hasInternetAccess(net)
  THEN /\ st.errorCount < MaxErrorCount
       /\ offlineSync' = Failed(st)
       /\ UNCHANGED <<isSyncing, pass, hist, awaiting>>
  ELSE /\ SyncPendingChanges(FALSE, net)
       /\ awaiting' = awaiting \cup {NewSlot}
       /\ offlineSync' = st

\* the effects of a render after the network store or the sync store's queue
\* changed, part_008:174-196: the connectivity effect, then the retry effect
\* with scheduleRetry (117-135), both reading the state of that render
Effects(ns, queueLength, due) ==
  LET isOffline == ~isOnline(ns)
      hasPending == queueLength > 0
      reconnected == ~isOffline /\ hasPending /\ offlineSync.isOffline
      retry == /\ offlineSync.nextRetry = "set" /\ due
               /\ autoRetry /\ offlineSync.errorCount < maxRetries
      st == [offlineSync EXCEPT !.isOffline = isOffline]
  IN /\ due => Len(timers) < MaxTimers
     /\ timers' = IF retry
                  THEN Append(timers, [delay |-> timeUntilRetry(offlineSync.errorCount),
                                       preempted |-> FALSE])
                  ELSE timers
     /\ IF reconnected
        THEN OfflineSyncPendingChanges(st, ns)
        ELSE /\ offlineSync' = st
             /\ UNCHANGED <<isSyncing, pass, hist, awaiting>>

\* the hook is mounted: the effects of the first render run
OfflineSyncMount ==
  /\ ~offlineSync.mounted
  /\ offlineSync' = [offlineSync EXCEPT !.mounted = TRUE, !.isOffline = ~isOnline(netStore)]
  /\ UNCHANGED <<syncVars, boots, schema, storeVars, netVars, timers, awaiting>>

\* setNetworkState, network-store.ts:61-68, and the render it causes
SetNetworkState(ns, due) ==
  /\ netStore' = ns
  /\ IF offlineSync.mounted
     THEN Effects(ns, Len(syncStore.queue), due)
     ELSE ~due /\ UNCHANGED <<offlineSync, timers, isSyncing, pass, hist, awaiting>>
  /\ UNCHANGED <<net, syncIntervalId, subscribed, queue, lastSyncTime, db,
                 nextTodo, nextIntent, api, notified>>
  /\ calls' = <<>>
  /\ UNCHANGED <<boots, schema, storeVars, subscribers, lib>>

\* an optimistic mutation adds its action to the sync store (addToQueue) while
\* the hook is mounted, and the render it causes
OfflineQueueChanged(due) ==
  /\ offlineSync.mounted
  /\ fresh.action <= MaxActions
  /\ syncStore' = addToQueue(syncStore, fresh.action, "CREATE")
  /\ fresh' = [fresh EXCEPT !.action = @ + 1]
  /\ Effects(netStore, Len(syncStore.queue) + 1, due)
  /\ UNCHANGED <<net, syncIntervalId, subscribed, queue, lastSyncTime, db,
                 nextTodo, nextIntent, api, notified>>
  /\ UNCHANGED <<boots, schema, todoStore, muts, netVars>>

\* the syncPendingChanges the hook returns is called
OfflineSyncCall ==
  /\ offlineSync.mounted
  /\ OfflineSyncPendingChanges(offlineSync, netStore)
  /\ UNCHANGED <<net, syncIntervalId, subscribed, queue, lastSyncTime, db,
                 nextTodo, nextIntent, api, notified>>
  /\ UNCHANGED <<boots, schema, storeVars, netVars, timers>>

\* forceSync, part_008:149-157; preempted marks the timers set before it
forceSync ==
  /\ offlineSync.mounted
  /\ timers' = [i \in 1..Len(timers) |-> [timers[i] EXCEPT !.preempted = TRUE]]
  /\ OfflineSyncPendingChanges([offlineSync EXCEPT !.errorCount = 0, !.nextRetry = "null"],
                               netStore)
  /\ UNCHANGED <<net, syncIntervalId, subscribed, queue, lastSyncTime, db,
                 nextTodo, nextIntent, api, notified>>
  /\ UNCHANGED <<boots, schema, storeVars, netVars>>

\* the setTimeout callback of scheduleRetry runs, part_008:130-135
RetryTimerFires(i) ==
  /\ i \in 1..Len(timers)
  /\ timers' = SubSeq(timers, 1, i - 1) \o SubSeq(timers, i + 1, Len(timers))
  /\ IF isOnline(netStore) /\ Len(syncStore.queue) > 0
     THEN OfflineSyncPendingChanges(offlineSync, netStore)
     ELSE UNCHANGED <<offlineSync, isSyncing, pass, hist, awaiting>>
  /\ UNCHANGED <<net, syncIntervalId, subscribed, queue, lastSyncTime, db,
                 nextTodo, nextIntent, api, notified>>
  /\ UNCHANGED <<boots, schema, storeVars, netVars>>

\* the pass a call awaits ends (sync.ts:118-131) and the call resumes with
\* its result (part_008:71-104)
OfflineSyncSettled(p, storeOk) ==
  /\ p \in awaiting
  /\ pass[p].pc = "finish"
  /\ ~storeOk => offlineSync.errorCount < MaxErrorCount
  /\ lastSyncTime' = IF storeOk THEN DateNow(lastSyncTime) ELSE lastSyncTime
  /\ isSyncing' = Finally(~storeOk, isSyncing)
  /\ pass' = [pass EXCEPT ![p] = IdlePass]
  /\ awaiting' = awaiting \ {p}
  /\ offlineSync' = IF storeOk THEN Succeeded(offlineSync) ELSE Failed(offlineSync)
  /\ UNCHANGED <<net, syncIntervalId, subscribed, queue, db, nextTodo, nextIntent,
                 api, hist, notified>>
  /\ UNCHANGED <<boots, schema, storeVars, netVars, timers>>

\* clearPendingChanges, part_008:162-171, and the render it causes
clearPendingChanges ==
  /\ offlineSync.mounted
  /\ syncStore' = clearQueue(syncStore)
  /\ offlineSync' = [offlineSync EXCEPT !.errorCount = 0, !.nextRetry = "null",
                                        !.isOffline = ~isOnline(netStore)]
  /\ UNCHANGED <<syncVars, boots, schema, todoStore, muts, fresh, netVars, timers, awaiting>>

NextNetwork ==
  \/ \E cb \in Screens : Subscribe(cb)
  \/ \E cb \in Screens : Unsubscribe(cb)
  \/ \E r \in NetInfoStates : UpdateState(r)
  \/ \E id \in ListenerIds, kind \in ListenerKinds : LibSubscribe(id, kind)
  \/ \E id \in ListenerIds : LibUnsubscribe(id)
  \/ \E state \in ExpoStates : LibUpdateNetworkState(state)
  \/ \E ns \in NetworkStoreStates : SetNetworkState(ns, FALSE)

SpecNetwork == Init /\ [][NextNetwork]_vars

NextOfflineSync ==
  \/ OfflineSyncMount
  \/ \E r \in NetInputs : NetChange(r)
  \/ \E ns \in NetworkStoreStates, due \in BOOLEAN : SetNetworkState(ns, due)
  \/ \E due \in BOOLEAN : OfflineQueueChanged(due)
  \/ OfflineSyncCall
  \/ forceSync
  \/ \E i \in 1..MaxTimers : RetryTimerFires(i)
  \/ \E p \in Passes : GetUnsynced(p, TRUE)
  \/ \E p \in Passes, storeOk \in BOOLEAN : OfflineSyncSettled(p, storeOk)
  \/ clearPendingChanges

SpecOfflineSync == Init /\ [][NextOfflineSync]_vars

\* =================================================================== claims

\* C1: at most one sync pass is in flight at any time, whatever mix of timer
\* ticks, reconnect callbacks, syncPendingChanges() and forcSync() calls.
C1_AtMostOnePassInFlight == NumInFlight <= 1

\* C2: a forcSync() call made while an earlier pass awaits its remote reply
\* starts nothing: no pass, no request, and the persisted queue is unchanged.
C2_ForceWhileBusyIsRejected ==
  [][((\E p \in Passes : AwaitingRemote(p)) /\ ForcSync)
       => (pass' = pass /\ hist' = hist /\ queue' = queue)]_vars

\* C3: an intent whose dispatch has failed MaxRetries times, counted across
\* passes, is no longer in the persisted queue.
C3_DroppedAfterMaxRetries ==
  \A i \in Ids(getSyncQueue(queue)) : hist.fails[i] < MaxRetries

\* C4: while some pass is in flight, isSyncing is true.
C4_FlagSetWhileInFlight == NumInFlight > 0 => isSyncing

\* C5: once no pass is in flight isSyncing is false, on every exit path of a
\* pass (all succeeded, some failed, exception), so the guard of a later
\* non-forced call lets it through.
C5_FlagNeverStuck == NumInFlight = 0 => ~AlreadySyncing(isSyncing, FALSE)

\* C5 witness: a pass with a failed dispatch has ended and the flag is clear
C5_Witness ==
  /\ NumInFlight = 0
  /\ ~isSyncing
  /\ \E i \in Intents : hist.fails[i] > 0

\* C6: intents are first dispatched in enqueue order: when an intent has been
\* dispatched, every intent enqueued before it has been dispatched before.
C6_FifoDispatch ==
  \A a, b \in Intents : (a < b /\ b \in hist.dispatched) => a \in hist.dispatched

\* C6 witness: two intents enqueued one after the other have been dispatched
C6_Witness == {1, 2} \subseteq hist.dispatched

\* C7: no UPDATE or DELETE request for an entity leaves, from the queue or
\* from a direct todoApi call, before a CREATE of that entity has succeeded.
C7_NoRequestBeforeCreate ==
  [][/\ \A p \in Passes :
          (pass'[p].pc = "dispatch" /\ pass'[p] # pass[p])
            => LET a == pass'[p].snap[pass'[p].idx]
               IN a.type # "CREATE" => a.entity \in hist'.created
     /\ \A c \in api' \ api :
          c.op # "CREATE" => c.entity \in hist.created]_vars

\* C8: when the dispatch of a CREATE or UPDATE intent succeeded, the intent is
\* out of the queue and, when the pass ends, the entity (if its row still
\* exists) is synced in the local database.
C8_SuccessRemovesAndMarksSynced ==
  [][\A p \in Passes :
       /\ (pass[p].pc = "dispatch" /\ DispatchReply(p, TRUE, TRUE))
            => pass[p].snap[pass[p].idx].id \notin Ids(getSyncQueue(queue'))
       /\ (pass[p].pc = "finish" /\ pass'[p].pc = "idle")
            => \A e \in pass[p].okEnts : db'[e] # "absent" => db'[e] = "synced"]_vars

C10_OneNotificationOnExhaustion ==
  \A i \in Intents :
    /\ notified[i] <= 1
    /\ hist.fails[i] >= MaxRetries => notified[i] = 1

\* C11: with no internet access a syncPendingChanges call, forced or not,
\* starts no pass, sends no request and leaves the persisted queue (and with
\* it every intent's retries), lastSyncTime and isSyncing as they were.
C11_OfflineCallChangesNothing ==
  [][(net.isInternetReachable # "true" /\ (SyncCall \/ ForcSync))
       => UNCHANGED <<queue, lastSyncTime, isSyncing, pass, hist, api>>]_vars

\* C11 witness: offline with an intent queued, a state such a call is made in
\* (the call returns false and the state stays this one)
C11_Witness ==
  /\ net.isInternetReachable # "true"
  /\ Len(getSyncQueue(queue)) > 0
  /\ lastSyncTime # 0
  /\ NumInFlight = 0

\* the intents still at retries 0
Fresh(q) == SelectSeq(q, LAMBDA a : a.retries = 0)

\* what an offline todoApi call of the given type on entity e leaves behind:
\* one more intent, of that type, for that entity, at retries 0, at the end
\* of the queue, and no request
OfflineEffect(type, e) ==
  LET before == getSyncQueue(queue)
      after  == getSyncQueue(queue')
  IN /\ Len(after) = Len(before) + 1
     /\ SubSeq(after, 1, Len(before)) = before
     /\ after[Len(after)].type = type
     /\ after[Len(after)].entity = e
     /\ Len(Fresh(after)) = Len(Fresh(before)) + 1
     /\ UNCHANGED <<api, hist, pass>>

C19_NoPassOnPoorNetwork ==
  [][\A p \in Started :
       (pass'[p].pc = "dispatch" /\ ~ForcSync) => isOptimalForSync(net')]_vars

\* C20: one offline-to-online transition with one pending intent starts
\* exactly one pass; a further notification that reports the network still
\* online starts none.
C20_OnePassPerReconnect ==
  [][/\ (~hasInternetAccess(net) /\ hasInternetAccess(net') /\ subscribed > 0
          /\ Len(getSyncQueue(queue)) = 1 /\ NumInFlight = 0)
        => Cardinality(Started) = 1
     /\ (hasInternetAccess(net) /\ hasInternetAccess(net') /\ net' # net
          /\ Len(getSyncQueue(queue)) = 1)
        => Started = {}]_vars

C15_StatsEqualRecomputation == todoStore.stats = calculateStats(todoStore.todos)

\* C16: confirmOptimistic and revertOptimistic are idempotent and safe on
\* stale ids: a second call, or either call after the entry was confirmed or
\* reverted, leaves todos and stats as they were.
C16_ConfirmRevertIdempotent ==
  \A tempId \in TempIds, id \in RealIds, data \in TodoData :
    LET realTodo  == ServerTodo(id, data)
        confirmed == confirmOptimistic(todoStore, tempId, realTodo)
        reverted  == revertOptimistic(todoStore, tempId)
    IN /\ confirmOptimistic(confirmed, tempId, realTodo) = confirmed
       /\ revertOptimistic(reverted, tempId) = reverted
       /\ revertOptimistic(confirmed, tempId) = confirmed
       /\ confirmOptimistic(reverted, tempId, realTodo) = reverted

\* C16 witness: an optimistic entry is in the list next to another entry, so
\* a first confirm or revert does change the store
C16_Witness ==
  /\ Len(todoStore.todos) = 2
  /\ \E tempId \in TempIds :
       /\ findIndex(todoStore.todos, tempId) # 0
       /\ revertOptimistic(todoStore, tempId) # todoStore
       /\ \E id \in RealIds, data \in TodoData :
            confirmOptimistic(todoStore, tempId, ServerTodo(id, data)) # todoStore

\* C18: in the sync store status.pending_actions equals queue.length in every
\* state reachable by addToQueue, removeFromQueue, clearQueue,
\* incrementRetries and reset.
C18_PendingActionsIsQueueLength == syncStore.pending_actions = Len(syncStore.queue)

\* C18 witness: after adds, a removal and a retry the queue holds two actions
C18_Witness ==
  /\ Len(syncStore.queue) = 2
  /\ fresh.action > MaxActions
  /\ \E i \in 1..2 : syncStore.queue[i].retries > 0

\* C14: an intent recorded by the optimistic mutation path (addToQueue of the
\* sync store) survives a restart of the process: the actions in the queue
\* before the restart are in the queue after it.
C14_StoreQueueSurvivesRestart ==
  [][Restart => Ids(syncStore.queue) \subseteq Ids(syncStore'.queue)]_vars

\* C17: when the mutations pending on a todo (optimistic updates and deletes,
\* in any interleaving) have all failed, the todo is in the store with the
\* visible value it had before the first of them was applied.
C17_RollbackRestoresOriginal ==
  [][\A i \in 1..Len(muts) :
       (/\ muts[i].op # "create" /\ muts[i].id \in RealIds
        /\ muts[i].clean /\ PendingOn(muts[i].id) = {i}
        /\ (UpdateSettled(i, FALSE) \/ DeleteSettled(i, FALSE)))
       => LET index == findIndex(todoStore'.todos, muts[i].id)
          IN index # 0 /\ Visible(todoStore'.todos[index]) = muts[i].base]_vars

\* the calls of callback cb among the calls cs of a step
CallsTo(cs, cb) == Cardinality({ i \in 1..Len(cs) : cs[i].cb = cb })

Subscribed(cb) == \E i \in 1..Len(subscribers) : subscribers[i] = cb

\* C21: subscribe calls the callback once, at once, with the current state;
\* every later update of the state calls each callback subscribed and not yet
\* unsubscribed exactly once with the new state, and no other callback; for
\* the NetworkService of network.ts and for the one of part_009.
C21_SubscribeCallbackContract ==
  [][/\ \A cb \in Screens : Subscribe(cb) => calls' = <<Invoked(cb, net)>>
     /\ (\E r \in NetInfoStates : UpdateState(r))
          => \A cb \in Screens :
               /\ CallsTo(calls', cb) = IF Subscribed(cb) THEN 1 ELSE 0
               /\ \A i \in 1..Len(calls') : calls'[i].state = net'
     /\ \A id \in ListenerIds, kind \in ListenerKinds :
          LibSubscribe(id, kind) => calls' = <<Invoked(id, lib.currentState)>>
     /\ (\E state \in ExpoStates : LibUpdateNetworkState(state))
          => \A id \in ListenerIds :
               /\ CallsTo(calls', id) = IF indexOf(lib.listeners, id) > 0 THEN 1 ELSE 0
               /\ \A i \in 1..Len(calls') : calls'[i].state = lib'.currentState]_vars

\* C22: an update that leaves the network state equal to the current one (a
\* NetInfo event or refresh for network.ts, a poll tick or refresh for
\* part_009) calls no subscriber.
C22_NotifiedOnlyOnChange ==
  [][/\ \A r \in NetInfoStates :
          (UpdateState(r) /\ NewState(r) = net) => calls' = <<>>
     /\ \A state \in ExpoStates :
          (LibUpdateNetworkState(state) /\ state = lib.currentState) => calls' = <<>>]_vars

\* C23: in the state NetworkService holds and in every state it passes to a
\* subscriber, quality is 'offline' exactly when isConnected is false, for
\* every NetInfo report (isConnected null included) and initially.
C23_OfflineIffNotConnected ==
  /\ (net.quality = "offline") <=> ~net.isConnected
  /\ \A i \in 1..Len(calls) :
       "quality" \in DOMAIN calls[i].state
         => ((calls[i].state.quality = "offline") <=> ~calls[i].state.isConnected)

\* C23 witness: a report of type unknown (isConnected null) has been stored
\* and passed to a subscriber, as not connected and offline
C23_Witness ==
  /\ net.details.present /\ net.type = "unknown"
  /\ ~net.isConnected /\ net.quality = "offline"
  /\ Len(calls) > 0 /\ calls[1].state = net

\* C24: NetworkService.isOptimalForSync is true only at quality good or
\* excellent (it has no wifi-only setting); isOptimalForSync of useNetworkSync
\* is true only at quality good or excellent as the hook evaluates it and,
\* with syncOnlyOnWifi set, only on wifi.
C24_OptimalOnlyOnGoodNetwork ==
  /\ isOptimalForSync(net) => net.quality \in {"good", "excellent"}
  /\ \A syncOnlyOnWifi \in BOOLEAN, stats \in ConnectionStats :
       useNetworkSyncIsOptimal(syncOnlyOnWifi, netStore, stats)
         => /\ evaluateConnectionQuality(netStore, stats) \in {"good", "excellent"}
            /\ syncOnlyOnWifi => netStore.type = "wifi"

\* C24 witness: both are true on an unmetered cellular connection, and the
\* hook's is false there once syncOnlyOnWifi is set
C24_Witness ==
  /\ isOptimalForSync(net) /\ net.type = "cellular"
  /\ netStore.type = "cellular"
  /\ \E stats \in ConnectionStats :
       /\ useNetworkSyncIsOptimal(FALSE, netStore, stats)
       /\ ~useNetworkSyncIsOptimal(TRUE, netStore, stats)

\* C25: the delay of every retry timer scheduleRetry sets is at most the
\* maximum interval of the sync configuration (maxSyncInterval), whatever
\* errorCount below maxRetries it was computed from.
C25_RetryDelayClamped ==
  \A i \in 1..Len(timers) : timers[i].delay <= maxSyncInterval

\* C26: a retry timer that was pending when forceSync was called starts no
\* pass when it expires.
C26_ForceSyncCancelsRetry ==
  [][\A i \in 1..Len(timers) :
       (timers[i].preempted /\ RetryTimerFires(i)) => Started = {}]_vars

\* C27: the first reply with a 4xx status to the dispatch of an intent removes
\* that intent from the stored queue.
C27_ClientErrorIsTerminal ==
  [][\A p \in Passes :
       (pass[p].pc = "dispatch" /\ DispatchReply(p, ResponseOk(404), TRUE))
         => pass[p].snap[pass[p].idx].id \notin Ids(getSyncQueue(queue'))]_vars

\* C28: when the pass throws (setAppConfig, sync.ts:121), the catch block
\* leaves the engine idle, isSyncing false, and the sync status carries the
\* failure in last_error.
C28_PassExceptionRecorded ==
  [][\A p \in Passes :
       (pass[p].pc = "finish" /\ FinishPass(p, FALSE))
         => /\ ~isSyncing'
            /\ pass'[p] = IdlePass
            /\ syncStore'.last_error # "null"]_vars

\* C29: a failed local write of a todoApi call (the first write, or the write
\* that marks the row synced after an ok reply) enqueues no intent and sends
\* no request.
C29_DbFailureEnqueuesNothing ==
  [][/\ (nextTodo <= MaxTodos /\ IntentBudget /\ ApiCreate(FALSE))
          => UNCHANGED <<queue, api, db, hist>>
     /\ \A e \in Todos :
          (db[e] # "absent" /\ IntentBudget /\ (ApiUpdate(e, FALSE) \/ ApiDelete(e, FALSE)))
            => UNCHANGED <<queue, api, db, hist>>
     /\ \A c \in api :
          (c.op # "DELETE" /\ ApiReply(c, TRUE, FALSE)) => queue' = queue]_vars

\* the retries value stored for intent id in the persisted queue q
retriesOf(q, id) ==
  LET parsed == getSyncQueue(q)
      i == CHOOSE j \in 1..Len(parsed) : parsed[j].id = id
  IN parsed[i].retries

\* C30: a failed dispatch that leaves its intent in the queue raises the
\* intent's stored retries by one, and no step lowers a stored retries value.
C30_FailedDispatchIncrementsRetries ==
  [][/\ \A p \in Passes :
          (/\ pass[p].pc = "dispatch"
           /\ DispatchReply(p, FALSE, TRUE)
           /\ pass[p].snap[pass[p].idx].id \in Ids(getSyncQueue(queue))
           /\ pass[p].snap[pass[p].idx].id \in Ids(getSyncQueue(queue')))
            => retriesOf(queue', pass[p].snap[pass[p].idx].id)
                 = retriesOf(queue, pass[p].snap[pass[p].idx].id) + 1
     /\ \A i \in Ids(getSyncQueue(queue)) \cap Ids(getSyncQueue(queue')) :
          retriesOf(queue', i) >= retriesOf(queue, i)]_vars

\* C31: a pass dispatches the actions of its snapshot of the queue one after
\* the other, each once: whatever the reply to the request for snap[idx]
\* (ok, not ok, thrown) and whatever the storage does, the pass goes on to
\* snap[idx + 1], and it leaves the loop only after the last action.
C31_PassDispatchesWholeSnapshot ==
  [][\A p \in Passes :
       /\ p \in Started =>
            /\ pass'[p].snap = getSyncQueue(queue)
            /\ Len(pass'[p].snap) > 0 => (pass'[p].pc = "dispatch" /\ pass'[p].idx = 1)
            /\ \A i, j \in 1..Len(pass'[p].snap) :
                 pass'[p].snap[i].id = pass'[p].snap[j].id => i = j
       /\ (pass[p].pc = "dispatch" /\ pass'[p] # pass[p]) =>
            IF pass[p].idx < Len(pass[p].snap)
            THEN /\ pass'[p].pc = "dispatch"
                 /\ pass'[p].snap = pass[p].snap
                 /\ pass'[p].idx = pass[p].idx + 1
                 /\ pass[p].snap[pass[p].idx + 1].id \in hist'.dispatched
            ELSE pass'[p].pc = "getUnsynced"]_vars

\* C31 witness: a pass is waiting for the reply to its second action after
\* the request for its first action failed
C31_Witness ==
  \E p \in Passes :
    /\ pass[p].pc = "dispatch" /\ pass[p].idx = 2
    /\ hist.fails[pass[p].snap[1].id] >= 1
    /\ pass[p].snap[1].entity \notin hist.acked

\* C32: a pass in which a dispatch failed does not end as a success, that is,
\* it stores no new lastSyncTime.  Stated for the case the state identifies:
\* the only pass started so far (none finished, no other in flight) has
\* sent requests and no request has ever succeeded.
C32_SuccessOnlyWhenAllSucceeded ==
  [][\A p \in Passes :
       (/\ pass[p].pc = "finish"
        /\ lastSyncTime = 0 /\ NumInFlight = 1
        /\ hist.dispatched # {} /\ hist.acked = {})
         => lastSyncTime' = lastSyncTime]_vars

\* C33: no POST leaves for an entity a POST has already succeeded for, be it
\* the dispatch of a queued CREATE (processSyncQueue) or the upload of an
\* unsynced row (uploadUnsyncedData).
C33_NoDuplicateCreate ==
  [][\A p \in Passes :
       /\ (pass'[p].pc = "upload"
             /\ (pass[p].pc # "upload" \/ pass'[p].uidx # pass[p].uidx))
            => pass'[p].uns[pass'[p].uidx] \notin hist'.created
       /\ (pass'[p].pc = "dispatch"
             /\ (pass[p].pc # "dispatch" \/ pass'[p].idx # pass[p].idx))
            => LET a == pass'[p].snap[pass'[p].idx]
               IN a.type = "CREATE" => a.entity \notin hist'.created]_vars

\* C34: the stored queue loses an intent only in the step in which the reply
\* to that intent's own request arrives, and it keeps its order: the intents
\* that survive a step stay in their order and an intent enqueued in the
\* step (during a pass or not) comes after all of them.
C34_EnqueueDuringPassSurvives ==
  [][queue' # queue =>
       LET q  == getSyncQueue(queue)
           q2 == getSyncQueue(queue')
       IN /\ \A i \in Ids(q) \ Ids(q2) :
               \E p \in Passes : /\ pass[p].pc = "dispatch"
                                 /\ pass[p].snap[pass[p].idx].id = i
          /\ q2 = SelectSeq(q, LAMBDA a : a.id \in Ids(q2))
                    \o SelectSeq(q2, LAMBDA a : a.id \notin Ids(q))]_vars

\* C34 witness: a pass has come to its end; intent 1, whose dispatch failed,
\* and intent 2, never dispatched and so enqueued after the pass took its
\* snapshot, are both in the stored queue, in that order
C34_Witness ==
  \E p \in Passes :
    /\ pass[p].pc = "finish" /\ NumInFlight = 1
    /\ hist.fails[1] >= 1 /\ 2 \notin hist.dispatched
    /\ [i \in 1..Len(getSyncQueue(queue)) |-> getSyncQueue(queue)[i].id] = <<1, 2>>

\* C35: when a mutation of the optimistic mutation hook succeeds, the action
\* the hook added to the sync store's queue for it leaves the queue:
\* pending_actions is one lower after the step.
C35_SettledMutationLeavesQueue ==
  [][\A i \in 1..MaxMuts :
       (CreateSettled(i) \/ UpdateSettled(i, TRUE) \/ DeleteSettled(i, TRUE))
         => /\ syncStore'.pending_actions = syncStore.pending_actions - 1
            /\ Len(syncStore'.queue) = Len(syncStore.queue) - 1]_vars

\* C36: after a local update the remote authority has not acknowledged (made
\* offline, or its request failed), the row is unsynced in the local database.
C36_UnackedUpdateIsUnsynced ==
  [][/\ \A e \in Todos :
          (/\ db[e] # "absent" /\ IntentBudget
           /\ ~hasInternetAccess(net)
           /\ ApiUpdate(e, TRUE)) => db'[e] = "unsynced"
     /\ \A c \in api :
          (/\ c.op = "UPDATE" /\ db[c.entity] # "absent"
           /\ ApiReply(c, FALSE, TRUE)) => db'[c.entity] = "unsynced"]_vars

\* C37: once destroy() has been called the service starts no pass on its
\* own: neither the auto-sync timer nor a change of the network state starts
\* an execution of syncPendingChanges.
C37_NoPassAfterDestroy ==
  [][Destroyed => /\ ~TimerTick
                  /\ (net' # net /\ \E r \in NetInputs : NetChange(r)) => Started = {}]_vars

\* the positions of the queue whose action has a retries value in S
PositionsWith(q, S) == { i \in 1..Len(q) : q[i].retries \in S }

\* list is the actions of q at the positions pos, in the order of q
InQueueOrder(list, q, pos) ==
  /\ Len(list) = Cardinality(pos)
  /\ \A k \in 1..Len(list) :
       \E i \in pos : /\ list[k] = q[i]
                      /\ Cardinality({ j \in pos : j < i }) = k - 1

\* C38: getQueueStats counts as pending the actions with retries 0, as
\* retrying those with retries 1 or 2 and as failed those with retries 3 or
\* more; the three counts add up to total, the length of the queue;
\* getPendingActions and getFailedActions are the actions with retries below
\* 3 and from 3, each in queue order.
C38_QueueStatsPartition ==
  LET q     == syncStore.queue
      stats == getQueueStats(syncStore)
  IN /\ stats.pending = Cardinality(PositionsWith(q, {0}))
     /\ stats.retrying = Cardinality(PositionsWith(q, {1, 2}))
     /\ stats.failed = Cardinality(PositionsWith(q, 3..MaxRetries))
     /\ stats.total = Len(q)
     /\ stats.total = stats.pending + stats.retrying + stats.failed
     /\ InQueueOrder(getPendingActions(syncStore), q, PositionsWith(q, 0..2))
     /\ InQueueOrder(getFailedActions(syncStore), q, PositionsWith(q, 3..MaxRetries))

\* C38 witness: the queue holds a failed action between a retrying and a
\* pending one
C38_Witness ==
  /\ Len(syncStore.queue) = 3
  /\ syncStore.queue[1].retries \in {1, 2}
  /\ syncStore.queue[2].retries >= 3
  /\ syncStore.queue[3].retries = 0

\* C39: rollback(target) with 0 <= target < current version leaves the
\* schema at version target, and it reverted the migrations with a version
\* above target, highest first.
C39_RollbackReachesTarget ==
  [][\A target \in 0..SetMax(Versions) :
       (target < getCurrentVersion(schema) /\ MigratorRollback(Number(target)))
         => /\ getCurrentVersion(schema') = target
            /\ schema'.calls[Len(schema'.calls)].reverted
                 = Descending({ v \in Versions :
                                  v > target /\ v <= getCurrentVersion(schema) })]_vars
====
